---- MODULE Spec2Model ----
(***************************************************************************)
(* Model of the cl30 callback bridge: the C trampolines that OpenCL calls  *)
(* and the bridge entries that hand them to OpenCL together with the       *)
(* caller's user data.                                                     *)
(*                                                                         *)
(* The bridge code is modelled definition by definition (operators named   *)
(* after the C functions).  The OpenCL runtime and the host runtime are    *)
(* the environment: OpenCL accepts or rejects a wrapped call, keeps the    *)
(* (callback, user_data) pair it was given, and later calls the callback   *)
(* on its own threads; the host entry points receive what the trampolines  *)
(* pass them.                                                              *)
(***************************************************************************)
EXTENDS Integers, Sequences, FiniteSets, TLC

VARIABLES
    lastCall,   \* the bridge call made by the latest bridge step: inputs, wrapped call, results
    regs,       \* what OpenCL holds: sequence of accepted (object, callback, user_data)
    released,   \* handles of the OpenCL objects whose last reference has been released
    clLog,      \* the callback invocations OpenCL has made, in order, each with its progress
    hostLog     \* the invocations the host runtime has received, in order

vars == <<lastCall, regs, released, clLog, hostLog>>

----------------------------------------------------------------------------
(* Bounds of the model *)

MaxCalls == 1       \* callbacks OpenCL holds while the host keeps calling bridge entries
MaxRegs == 1        \* callbacks OpenCL holds at once
MaxInv == 2         \* callback invocations OpenCL makes in one behaviour
MaxPerObject == 2   \* callbacks registered on one object (object life cycle, native kernels)
PtrBits == 2        \* width of a pointer / intptr_t (64 in the build)

----------------------------------------------------------------------------
(* Values *)

NULL == 0                           \* the null data pointer
NULLP == "NULL"                     \* the null handle / null function pointer

CL_SUCCESS == 0
CL_COMPLETE == 0
CL_OUT_OF_RESOURCES == -5
CL_INVALID_VALUE == -30

PtrMax == 2^PtrBits - 1

\* user-data pointers the host hands in: null, a low address, the all-ones pattern
Tokens == {NULL, 1, PtrMax}
\* the same bit patterns seen as intptr_t (cl30CreateContext takes the token as intptr_t)
IntTokens == {0, 1, -1}

\* (void *)(userData) for an intptr_t userData: the bit pattern, as an address
IntptrToPtr(i) == i % (2^PtrBits)

\* (intptr_t)(userData) for a void *userData: the bit pattern, as a signed integer
PtrToIntptr(p) == IF p >= 2^(PtrBits - 1) THEN p - 2^PtrBits ELSE p

\* a function pointer the host passes as `notify`: null, the resident trampoline,
\* or some other function of the caller's choosing
HostFn == "hostFn"
NotifyOf(trampoline) == {NULLP, trampoline, HostFn}

----------------------------------------------------------------------------
(* The C trampolines: each yields the calls its body makes, in order: the   *)
(* host entry called and the arguments passed                              *)


\* variant: the user data is not handed on
cl30CEventCallback_NoUserData(event, commandStatus, userData) ==
    << [entry |-> "cl30GoEventCallback",
        args |-> <<event, commandStatus, NULL>>] >>

cl30CEventCallback(event, commandStatus, userData) ==
    << [entry |-> "cl30GoEventCallback",
        args |-> <<event, commandStatus, userData>>] >>


\* variant: the user data is not handed on
cl30CMemObjectDestructorCallback_NoUserData(mem, userData) ==
    << [entry |-> "cl30GoMemObjectDestructorCallback",
        args |-> <<mem, NULL>>] >>

cl30CMemObjectDestructorCallback(mem, userData) ==
    << [entry |-> "cl30GoMemObjectDestructorCallback",
        args |-> <<mem, userData>>] >>

cl30CProgramReleaseCallback(program, userData) ==
    << [entry |-> "cl30GoProgramReleaseCallback",
        args |-> <<program, userData>>] >>

cl30CKernelNativeCallback(args) ==
    << [entry |-> "cl30GoKernelNativeCallback",
        args |-> <<args>>] >>

cl30CSvmFreeCallback(commandQueue, svmPointerCount, svmPointers, userData) ==
    << [entry |-> "cl30GoSvmFreeCallback",
        args |-> <<commandQueue, svmPointerCount, svmPointers, userData>>] >>

cl30CProgramBuildCallback(program, userData) ==
    << [entry |-> "cl30GoProgramBuildCallback",
        args |-> <<program, userData>>] >>

cl30CProgramCompileCallback(program, userData) ==
    << [entry |-> "cl30GoProgramCompileCallback",
        args |-> <<program, userData>>] >>

cl30CProgramLinkCallback(program, userData) ==
    << [entry |-> "cl30GoProgramLinkCallback",
        args |-> <<program, userData>>] >>


\* variant: the host is called only when there is user data
cl30CContextErrorCallback_SkipsNull(errorInfo, privateInfoPtr, privateInfoLen, userData) ==
    IF userData = NULL THEN << >>
    ELSE << [entry |-> "cl30GoContextErrorCallback",
             args |-> <<errorInfo, privateInfoPtr, privateInfoLen,
                        PtrToIntptr(userData)>>] >>

cl30CContextErrorCallback(errorInfo, privateInfoPtr, privateInfoLen, userData) ==
    << [entry |-> "cl30GoContextErrorCallback",
        args |-> <<errorInfo, privateInfoPtr, privateInfoLen, PtrToIntptr(userData)>>] >>

cl30CContextDestructorCallback(context, userData) ==
    << [entry |-> "cl30GoContextDestructorCallback",
        args |-> <<context, userData>>] >>

----------------------------------------------------------------------------
(* The bridge entries: each yields the one wrapped OpenCL call it makes    *)
(* (function and argument list, in OpenCL's parameter order) and, given    *)
(* the value r that call returns, the value the bridge returns.            *)

cl30SetEventCallback(event, callbackType, userData, r) ==
    [fn |-> "clSetEventCallback",
     args |-> <<event, callbackType, "cl30CEventCallback", userData>>,
     ret |-> r]


\* variant: no trampoline for a null token
cl30SetMemObjectDestructorCallback_NullCheck(mem, userData, r) ==
    [fn |-> "clSetMemObjectDestructorCallback",
     args |-> <<mem,
                IF userData # NULL THEN "cl30CMemObjectDestructorCallback" ELSE NULLP,
                userData>>,
     ret |-> r]

cl30SetMemObjectDestructorCallback(mem, userData, r) ==
    [fn |-> "clSetMemObjectDestructorCallback",
     args |-> <<mem, "cl30CMemObjectDestructorCallback", userData>>,
     ret |-> r]

cl30SetProgramReleaseCallback(program, userData, r) ==
    [fn |-> "clSetProgramReleaseCallback",
     args |-> <<program, "cl30CProgramReleaseCallback", userData>>,
     ret |-> r]


\* variant: no kernel function for a null argument block
cl30EnqueueNativeKernel_NullArgs(commandQueue, args, argsSize, numMemObjects, memList, argsMemLoc, waitListCount, waitList, event, r) ==
    [fn |-> "clEnqueueNativeKernel",
     args |-> <<commandQueue,
                IF args # NULL THEN "cl30CKernelNativeCallback" ELSE NULLP,
                args, argsSize,
                numMemObjects, memList, argsMemLoc, waitListCount, waitList, event>>,
     ret |-> r]

cl30EnqueueNativeKernel(commandQueue, args, argsSize, numMemObjects, memList, argsMemLoc, waitListCount, waitList, event, r) ==
    [fn |-> "clEnqueueNativeKernel",
     args |-> <<commandQueue, "cl30CKernelNativeCallback", args, argsSize,
                numMemObjects, memList, argsMemLoc, waitListCount, waitList, event>>,
     ret |-> r]

cl30EnqueueSVMFree(commandQueue, svmPointerCount, svmPointers, userData, waitListCount, waitList, event, r) ==
    [fn |-> "clEnqueueSVMFree",
     args |-> <<commandQueue, svmPointerCount, svmPointers,
                IF userData # NULL THEN "cl30CSvmFreeCallback" ELSE NULLP, userData,
                waitListCount, waitList, event>>,
     ret |-> r]

cl30EnqueueSVMMigrateMem(commandQueue, svmPointerCount, svmPointers, sizes, flags, waitListCount, waitList, event, r) ==
    [fn |-> "clEnqueueSVMMigrateMem",
     args |-> <<commandQueue, svmPointerCount, svmPointers, sizes, flags,
                waitListCount, waitList, event>>,
     ret |-> r]


\* variant: the trampoline is installed whether or not there is a token
cl30BuildProgram_Unconditional(program, numDevices, devices, options, userData, r) ==
    [fn |-> "clBuildProgram",
     args |-> <<program, numDevices, devices, options,
                "cl30CProgramBuildCallback", userData>>,
     ret |-> r]

cl30BuildProgram(program, numDevices, devices, options, userData, r) ==
    [fn |-> "clBuildProgram",
     args |-> <<program, numDevices, devices, options,
                IF userData # NULL THEN "cl30CProgramBuildCallback" ELSE NULLP, userData>>,
     ret |-> r]

cl30CompileProgram(program, numDevices, devices, options, numInputHeaders, headers, includeNames, userData, r) ==
    [fn |-> "clCompileProgram",
     args |-> <<program, numDevices, devices, options,
                numInputHeaders, headers, includeNames,
                IF userData # NULL THEN "cl30CProgramCompileCallback" ELSE NULLP, userData>>,
     ret |-> r]


\* variant: the status is taken into a local and not handed on
cl30LinkProgram_LocalStatus(context, numDevices, devices, options, numInputPrograms, programs, userData, errReturn, r) ==
    [fn |-> "clLinkProgram",
     args |-> <<context, numDevices, devices, options,
                numInputPrograms, programs,
                IF userData # NULL THEN "cl30CProgramLinkCallback" ELSE NULLP, userData,
                NULL>>,
     ret |-> r]

cl30LinkProgram(context, numDevices, devices, options, numInputPrograms, programs, userData, errReturn, r) ==
    [fn |-> "clLinkProgram",
     args |-> <<context, numDevices, devices, options,
                numInputPrograms, programs,
                IF userData # NULL THEN "cl30CProgramLinkCallback" ELSE NULLP, userData,
                errReturn>>,
     ret |-> r]


\* variant: a null token drops the caller's notify
cl30CreateContext_TokenDecides(properties, numDevices, devices, notify, userData, errcodeReturn, r) ==
    [fn |-> "clCreateContext",
     args |-> <<properties, numDevices, devices,
                IF userData # 0 THEN notify ELSE NULLP, IntptrToPtr(userData),
                errcodeReturn>>,
     ret |-> r]

cl30CreateContext(properties, numDevices, devices, notify, userData, errcodeReturn, r) ==
    [fn |-> "clCreateContext",
     args |-> <<properties, numDevices, devices, notify, IntptrToPtr(userData),
                errcodeReturn>>,
     ret |-> r]

cl30CreateContextFromType(properties, deviceType, notify, userData, errcodeReturn, r) ==
    [fn |-> "clCreateContextFromType",
     args |-> <<properties, deviceType, notify, IntptrToPtr(userData), errcodeReturn>>,
     ret |-> r]


\* variant: the resident trampoline is installed whatever notify is
cl30SetContextDestructorCallback_Resident(context, notify, userData, r) ==
    [fn |-> "clSetContextDestructorCallback",
     args |-> <<context, "cl30CContextDestructorCallback", userData>>,
     ret |-> r]

cl30SetContextDestructorCallback(context, notify, userData, r) ==
    [fn |-> "clSetContextDestructorCallback",
     args |-> <<context, notify, userData>>,
     ret |-> r]

----------------------------------------------------------------------------
(* The OpenCL runtime, as the bridge's environment *)

\* handles of the objects the host works with (created outside the bridge)
Event1 == "e1"
Mem1 == "m1"
Program1 == "p1"
Program2 == "p2"        \* the program clLinkProgram creates
Context1 == "c1"        \* the context clCreateContext creates, also the one destructors are set on
Context2 == "c2"        \* the context clCreateContextFromType creates
Queue1 == "q1"

\* OpenCL's reading of a wrapped call: the object the callback belongs to, the
\* callback and user_data it was given (by parameter position of the OpenCL API),
\* and what it will pass besides user_data when it calls back.  `h` is the handle
\* the call creates (creation calls only).
ClParse(c, h) ==
    CASE c.fn = "clSetEventCallback" ->
            [kind |-> "event", obj |-> c.args[1], cb |-> c.args[3], ud |-> c.args[4]]
      [] c.fn = "clSetMemObjectDestructorCallback" ->
            [kind |-> "destructor", obj |-> c.args[1], cb |-> c.args[2], ud |-> c.args[3]]
      [] c.fn = "clSetProgramReleaseCallback" ->
            [kind |-> "destructor", obj |-> c.args[1], cb |-> c.args[2], ud |-> c.args[3]]
      [] c.fn = "clSetContextDestructorCallback" ->
            [kind |-> "destructor", obj |-> c.args[1], cb |-> c.args[2], ud |-> c.args[3]]
      [] c.fn = "clEnqueueNativeKernel" ->
            \* OpenCL copies the argument block; the callback gets the copy's address
            [kind |-> "native", obj |-> c.args[1], cb |-> c.args[2],
             ud |-> IF c.args[3] = NULL THEN NULL ELSE c.args[3] + 1]
      [] c.fn = "clEnqueueSVMFree" ->
            [kind |-> "svmfree", obj |-> c.args[1], cb |-> c.args[4], ud |-> c.args[5]]
      [] c.fn = "clBuildProgram" ->
            [kind |-> "program", obj |-> c.args[1], cb |-> c.args[5], ud |-> c.args[6]]
      [] c.fn = "clCompileProgram" ->
            [kind |-> "program", obj |-> c.args[1], cb |-> c.args[8], ud |-> c.args[9]]
      [] c.fn = "clLinkProgram" ->
            [kind |-> "program", obj |-> h, cb |-> c.args[7], ud |-> c.args[8]]
      [] c.fn = "clCreateContext" ->
            [kind |-> "ctxerror", obj |-> h, cb |-> c.args[4], ud |-> c.args[5]]
      [] c.fn = "clCreateContextFromType" ->
            [kind |-> "ctxerror", obj |-> h, cb |-> c.args[3], ud |-> c.args[4]]
      [] OTHER ->
            [kind |-> "none", obj |-> c.args[1], cb |-> NULLP, ud |-> NULL]

\* the pointer through which a creation call reports its status (NULL: none)
ClErrPtr(c) ==
    CASE c.fn = "clLinkProgram" -> c.args[9]
      [] c.fn = "clCreateContext" -> c.args[6]
      [] c.fn = "clCreateContextFromType" -> c.args[5]
      [] OTHER -> NULL

ClCreates(c) ==
    CASE c.fn = "clLinkProgram" -> Program2
      [] c.fn = "clCreateContext" -> Context1
      [] c.fn = "clCreateContextFromType" -> Context2
      [] OTHER -> NULLP

IsCreation(c) == ClCreates(c) # NULLP

\* argument combinations OpenCL rejects with CL_INVALID_VALUE
ClInvalid(c) ==
    LET p == ClParse(c, ClCreates(c)) IN
    \/ p.kind \in {"event", "destructor", "native"} /\ p.cb = NULLP
    \/ p.kind \in {"program", "ctxerror"} /\ p.cb = NULLP /\ p.ud # NULL
    \/ c.fn = "clEnqueueNativeKernel" /\ ((c.args[3] = NULL) # (c.args[4] = 0))
    \/ ~IsCreation(c) /\ c.args[1] \in released

\* what a wrapped call can come back with: the value it returns and the status it
\* reports (the same value for the calls that return their status)
ClOutcomes(c) ==
    LET codes == IF ClInvalid(c) THEN {CL_INVALID_VALUE}
                 ELSE {CL_SUCCESS, CL_OUT_OF_RESOURCES}
    IN  { [ret |-> IF IsCreation(c)
                   THEN (IF e = CL_SUCCESS THEN ClCreates(c) ELSE NULLP)
                   ELSE e,
           err |-> e] : e \in codes }

NoCall == [bridge |-> "none"]

\* One bridge call: the host calls bridge entry `name` with inputs `in` (token
\* `token` among them); the entry makes wrapped call c, OpenCL answers with
\* outcome o and, if it accepted a callback, holds it from now on.
BridgeCall(name, in, token, c, o) ==
    LET p == ClParse(c, o.ret) IN
    /\ lastCall' = [bridge |-> name, in |-> in, token |-> token,
                    fn |-> c.fn, args |-> c.args,
                    clRet |-> o.ret, clErr |-> o.err, errPtr |-> ClErrPtr(c),
                    ret |-> c.ret]
    /\ regs' = IF o.err = CL_SUCCESS /\ p.cb # NULLP
               THEN Append(regs, [via |-> name, token |-> token, fn |-> c.fn,
                                  kind |-> p.kind, obj |-> p.obj,
                                  cb |-> p.cb, ud |-> p.ud, more |-> c.args])
               ELSE regs
    /\ UNCHANGED <<released, clLog, hostLog>>

----------------------------------------------------------------------------
(* Bridge calls made by the host.  What a bridge entry passes to OpenCL does *)
(* not depend on what OpenCL then returns, so the wrapped call is formed     *)
(* once to let OpenCL choose its outcome and once more with that outcome     *)
(* as the value the entry returns.                                           *)

ErrOut == 1             \* address of the caller's status variable

SetEventCallback ==
    \E userData \in Tokens :
      LET probe == cl30SetEventCallback(Event1, CL_COMPLETE, userData, CL_SUCCESS) IN
      \E o \in ClOutcomes(probe) :
        BridgeCall("cl30SetEventCallback", <<Event1, CL_COMPLETE, userData>>, userData,
                   cl30SetEventCallback(Event1, CL_COMPLETE, userData, o.ret), o)

SetMemObjectDestructorCallback ==
    \E userData \in Tokens :
      LET probe == cl30SetMemObjectDestructorCallback(Mem1, userData, CL_SUCCESS) IN
      \E o \in ClOutcomes(probe) :
        BridgeCall("cl30SetMemObjectDestructorCallback", <<Mem1, userData>>, userData,
                   cl30SetMemObjectDestructorCallback(Mem1, userData, o.ret), o)

SetProgramReleaseCallback ==
    \E userData \in Tokens :
      LET probe == cl30SetProgramReleaseCallback(Program1, userData, CL_SUCCESS) IN
      \E o \in ClOutcomes(probe) :
        BridgeCall("cl30SetProgramReleaseCallback", <<Program1, userData>>, userData,
                   cl30SetProgramReleaseCallback(Program1, userData, o.ret), o)

EnqueueNativeKernel ==
    \E args \in {NULL, 1}, argsSize \in {0, 2} :
      LET in == <<Queue1, args, argsSize, 1, "memList", "argsMemLoc", 2, "waitList", "event">>
          probe == cl30EnqueueNativeKernel(in[1], in[2], in[3], in[4], in[5], in[6],
                                           in[7], in[8], in[9], CL_SUCCESS)
      IN
      \E o \in ClOutcomes(probe) :
        BridgeCall("cl30EnqueueNativeKernel", in, NULL,
                   cl30EnqueueNativeKernel(in[1], in[2], in[3], in[4], in[5], in[6],
                                           in[7], in[8], in[9], o.ret), o)

EnqueueSVMFree ==
    \E userData \in Tokens :
      LET in == <<Queue1, 2, "svmPointers", userData, 1, "waitList", "event">>
          probe == cl30EnqueueSVMFree(in[1], in[2], in[3], in[4], in[5], in[6], in[7],
                                      CL_SUCCESS)
      IN
      \E o \in ClOutcomes(probe) :
        BridgeCall("cl30EnqueueSVMFree", in, userData,
                   cl30EnqueueSVMFree(in[1], in[2], in[3], in[4], in[5], in[6], in[7],
                                      o.ret), o)

EnqueueSVMMigrateMem ==
    \E flags \in {0, 1, 2} :
      LET in == <<Queue1, 2, "svmPointers", "sizes", flags, 1, "waitList", "event">>
          probe == cl30EnqueueSVMMigrateMem(in[1], in[2], in[3], in[4], in[5], in[6],
                                            in[7], in[8], CL_SUCCESS)
      IN
      \E o \in ClOutcomes(probe) :
        BridgeCall("cl30EnqueueSVMMigrateMem", in, NULL,
                   cl30EnqueueSVMMigrateMem(in[1], in[2], in[3], in[4], in[5], in[6],
                                            in[7], in[8], o.ret), o)

BuildProgram ==
    \E userData \in Tokens :
      LET in == <<Program1, 1, "devices", "options", userData>>
          probe == cl30BuildProgram(in[1], in[2], in[3], in[4], in[5], CL_SUCCESS)
      IN
      \E o \in ClOutcomes(probe) :
        BridgeCall("cl30BuildProgram", in, userData,
                   cl30BuildProgram(in[1], in[2], in[3], in[4], in[5], o.ret), o)

CompileProgram ==
    \E userData \in Tokens :
      LET in == <<Program1, 1, "devices", "options", 2, "headers", "includeNames", userData>>
          probe == cl30CompileProgram(in[1], in[2], in[3], in[4], in[5], in[6], in[7],
                                      in[8], CL_SUCCESS)
      IN
      \E o \in ClOutcomes(probe) :
        BridgeCall("cl30CompileProgram", in, userData,
                   cl30CompileProgram(in[1], in[2], in[3], in[4], in[5], in[6], in[7],
                                      in[8], o.ret), o)

LinkProgram ==
    \E userData \in Tokens :
      LET in == <<Context1, 1, "devices", "options", 2, "programs", userData, ErrOut>>
          probe == cl30LinkProgram(in[1], in[2], in[3], in[4], in[5], in[6], in[7],
                                   in[8], NULLP)
      IN
      \E o \in ClOutcomes(probe) :
        BridgeCall("cl30LinkProgram", in, userData,
                   cl30LinkProgram(in[1], in[2], in[3], in[4], in[5], in[6], in[7],
                                   in[8], o.ret), o)

CreateContext ==
    \E notify \in NotifyOf("cl30CContextErrorCallback"), userData \in IntTokens :
      LET in == <<"properties", 1, "devices", notify, userData, ErrOut>>
          probe == cl30CreateContext(in[1], in[2], in[3], in[4], in[5], in[6], NULLP)
      IN
      \E o \in ClOutcomes(probe) :
        BridgeCall("cl30CreateContext", in, userData,
                   cl30CreateContext(in[1], in[2], in[3], in[4], in[5], in[6], o.ret), o)

CreateContextFromType ==
    \E notify \in NotifyOf("cl30CContextErrorCallback"), userData \in IntTokens :
      LET in == <<"properties", 4, notify, userData, ErrOut>>
          probe == cl30CreateContextFromType(in[1], in[2], in[3], in[4], in[5], NULLP)
      IN
      \E o \in ClOutcomes(probe) :
        BridgeCall("cl30CreateContextFromType", in, userData,
                   cl30CreateContextFromType(in[1], in[2], in[3], in[4], in[5], o.ret), o)

SetContextDestructorCallback ==
    \E notify \in NotifyOf("cl30CContextDestructorCallback"), userData \in Tokens :
      LET in == <<Context1, notify, userData>>
          probe == cl30SetContextDestructorCallback(in[1], in[2], in[3], CL_SUCCESS)
      IN
      \E o \in ClOutcomes(probe) :
        BridgeCall("cl30SetContextDestructorCallback", in, userData,
                   cl30SetContextDestructorCallback(in[1], in[2], in[3], o.ret), o)

----------------------------------------------------------------------------
(* OpenCL calling back, on threads of its own *)

Regs == 1..Len(regs)
Invs == 1..Len(clLog)

Fired(i) == \E k \in Invs : clLog[k].reg = i

\* an invocation for object o has been made and has not returned yet
Outstanding(o) == \E k \in Invs : clLog[k].pc # "done" /\ regs[clLog[k].reg].obj = o

\* destructor callbacks of a released object that OpenCL still has to call
Pending(o) == { i \in Regs : regs[i].kind = "destructor" /\ regs[i].obj = o /\ ~Fired(i) }

\* the object is gone and so is every callback invocation made for it
Drained(o) == o \in released /\ Pending(o) = {} /\ ~Outstanding(o)

\* OpenCL may call registration i now: destructor callbacks once the object is
\* released, one at a time, the latest registered first; context error callbacks
\* any number of times while the context lives, also concurrently; every other
\* callback once while its object lives
CanInvoke(i) ==
    LET g == regs[i] IN
    CASE g.kind = "destructor" ->
            /\ g.obj \in released
            /\ i \in Pending(g.obj)
            /\ \A j \in Pending(g.obj) : regs[j].fn = g.fn => j <= i
            /\ \A k \in Invs : (regs[clLog[k].reg].obj = g.obj
                                 /\ regs[clLog[k].reg].kind = "destructor")
                                => clLog[k].pc = "done"
      [] g.kind = "ctxerror" -> g.obj \notin released
      [] OTHER -> g.obj \notin released /\ ~Fired(i)

\* the arguments OpenCL passes to the callback of registration g
ClArgs(g, status) ==
    CASE g.kind = "event" -> <<g.obj, status, g.ud>>
      [] g.kind = "native" -> <<g.ud>>
      [] g.kind = "svmfree" -> <<g.obj, g.more[2], g.more[3], g.ud>>
      [] g.kind = "ctxerror" -> <<"errorInfo", 1, 2, g.ud>>
      [] OTHER -> <<g.obj, g.ud>>

ClInvoke ==
    \E i \in Regs :
      \E status \in (IF regs[i].kind = "event" THEN {CL_COMPLETE, CL_OUT_OF_RESOURCES}
                     ELSE {CL_COMPLETE}) :
        /\ CanInvoke(i)
        /\ clLog' = Append(clLog, [reg |-> i, cb |-> regs[i].cb,
                                   args |-> ClArgs(regs[i], status), pc |-> "called"])
        /\ UNCHANGED <<lastCall, regs, released, hostLog>>

Release ==
    \E o \in { regs[i].obj : i \in Regs } \ released :
        /\ released' = released \cup {o}
        /\ UNCHANGED <<lastCall, regs, clLog, hostLog>>

\* variant: the function hands the host calls over to be made later and returns
\* to OpenCL at once
Enter_Deferred(k, hs) ==
    \/ /\ clLog[k].pc = "called"
       /\ clLog' = [clLog EXCEPT ![k].pc = "done"]
       /\ UNCHANGED <<lastCall, regs, released, hostLog>>
    \/ /\ clLog[k].pc = "done"
       /\ \A j \in 1..Len(hostLog) : hostLog[j].inv # k
       /\ hs # << >>
       /\ hostLog' = hostLog \o [j \in 1..Len(hs) |->
                                   [inv |-> k, entry |-> hs[j].entry, args |-> hs[j].args]]
       /\ UNCHANGED <<lastCall, regs, released, clLog>>

\* the function OpenCL called in invocation k runs, on OpenCL's thread: it makes
\* the host calls hs, and is inside the host entry until that returns
Enter(k, hs) ==
    /\ clLog[k].pc = "called"
    /\ hostLog' = hostLog \o [j \in 1..Len(hs) |->
                                [inv |-> k, entry |-> hs[j].entry, args |-> hs[j].args]]
    /\ clLog' = [clLog EXCEPT ![k].pc = "host"]
    /\ UNCHANGED <<lastCall, regs, released>>

CEventCallback ==
    \E k \in Invs : LET a == clLog[k].args IN
        /\ clLog[k].cb = "cl30CEventCallback"
        /\ Enter(k, cl30CEventCallback(a[1], a[2], a[3]))

CMemObjectDestructorCallback ==
    \E k \in Invs : LET a == clLog[k].args IN
        /\ clLog[k].cb = "cl30CMemObjectDestructorCallback"
        /\ Enter(k, cl30CMemObjectDestructorCallback(a[1], a[2]))

CProgramReleaseCallback ==
    \E k \in Invs : LET a == clLog[k].args IN
        /\ clLog[k].cb = "cl30CProgramReleaseCallback"
        /\ Enter(k, cl30CProgramReleaseCallback(a[1], a[2]))

CKernelNativeCallback ==
    \E k \in Invs : LET a == clLog[k].args IN
        /\ clLog[k].cb = "cl30CKernelNativeCallback"
        /\ Enter(k, cl30CKernelNativeCallback(a[1]))

CSvmFreeCallback ==
    \E k \in Invs : LET a == clLog[k].args IN
        /\ clLog[k].cb = "cl30CSvmFreeCallback"
        /\ Enter(k, cl30CSvmFreeCallback(a[1], a[2], a[3], a[4]))

CProgramBuildCallback ==
    \E k \in Invs : LET a == clLog[k].args IN
        /\ clLog[k].cb = "cl30CProgramBuildCallback"
        /\ Enter(k, cl30CProgramBuildCallback(a[1], a[2]))

CProgramCompileCallback ==
    \E k \in Invs : LET a == clLog[k].args IN
        /\ clLog[k].cb = "cl30CProgramCompileCallback"
        /\ Enter(k, cl30CProgramCompileCallback(a[1], a[2]))

CProgramLinkCallback ==
    \E k \in Invs : LET a == clLog[k].args IN
        /\ clLog[k].cb = "cl30CProgramLinkCallback"
        /\ Enter(k, cl30CProgramLinkCallback(a[1], a[2]))

CContextErrorCallback ==
    \E k \in Invs : LET a == clLog[k].args IN
        /\ clLog[k].cb = "cl30CContextErrorCallback"
        /\ Enter(k, cl30CContextErrorCallback(a[1], a[2], a[3], a[4]))

CContextDestructorCallback ==
    \E k \in Invs : LET a == clLog[k].args IN
        /\ clLog[k].cb = "cl30CContextDestructorCallback"
        /\ Enter(k, cl30CContextDestructorCallback(a[1], a[2]))

\* the caller's own function, registered through a `notify` parameter: OpenCL
\* calls it directly, the bridge is not on the path
HostFnCallback ==
    \E k \in Invs :
        /\ clLog[k].cb = HostFn
        /\ Enter(k, << [entry |-> HostFn, args |-> clLog[k].args] >>)

\* the host entry returns, and with it the callback
HostReturn ==
    \E k \in Invs :
        /\ clLog[k].pc = "host"
        /\ clLog' = [clLog EXCEPT ![k].pc = "done"]
        /\ UNCHANGED <<lastCall, regs, released, hostLog>>

----------------------------------------------------------------------------
Init ==
    /\ lastCall = NoCall
    /\ regs = <<>>
    /\ released = {}
    /\ clLog = <<>>
    /\ hostLog = <<>>

\* a bridge call that leaves a callback with OpenCL
Registers == Len(regs') = Len(regs) + 1

\* every bridge entry, called while OpenCL holds fewer than MaxCalls callbacks
NextBridge ==
    \/ Len(regs) < MaxCalls /\ SetEventCallback
    \/ Len(regs) < MaxCalls /\ SetMemObjectDestructorCallback
    \/ Len(regs) < MaxCalls /\ SetProgramReleaseCallback
    \/ Len(regs) < MaxCalls /\ EnqueueNativeKernel
    \/ Len(regs) < MaxCalls /\ EnqueueSVMFree
    \/ Len(regs) < MaxCalls /\ EnqueueSVMMigrateMem
    \/ Len(regs) < MaxCalls /\ BuildProgram
    \/ Len(regs) < MaxCalls /\ CompileProgram
    \/ Len(regs) < MaxCalls /\ LinkProgram
    \/ Len(regs) < MaxCalls /\ CreateContext
    \/ Len(regs) < MaxCalls /\ CreateContextFromType
    \/ Len(regs) < MaxCalls /\ SetContextDestructorCallback

SpecBridge == Init /\ [][NextBridge]_vars

\* the callbacks at work: the bridge calls that register a callback, OpenCL
\* calling back and releasing objects, the trampolines, the host returning
Next ==
    \/ Len(regs) < MaxRegs /\ SetEventCallback /\ Registers
    \/ Len(regs) < MaxRegs /\ SetMemObjectDestructorCallback /\ Registers
    \/ Len(regs) < MaxRegs /\ SetProgramReleaseCallback /\ Registers
    \/ Len(regs) < MaxRegs /\ EnqueueNativeKernel /\ Registers
    \/ Len(regs) < MaxRegs /\ EnqueueSVMFree /\ Registers
    \/ Len(regs) < MaxRegs /\ BuildProgram /\ Registers
    \/ Len(regs) < MaxRegs /\ CompileProgram /\ Registers
    \/ Len(regs) < MaxRegs /\ LinkProgram /\ Registers
    \/ Len(regs) < MaxRegs /\ CreateContext /\ Registers
    \/ Len(regs) < MaxRegs /\ CreateContextFromType /\ Registers
    \/ Len(regs) < MaxRegs /\ SetContextDestructorCallback /\ Registers
    \/ Len(clLog) < MaxInv /\ ClInvoke
    \/ Release
    \/ CEventCallback
    \/ CMemObjectDestructorCallback
    \/ CProgramReleaseCallback
    \/ CKernelNativeCallback
    \/ CSvmFreeCallback
    \/ CProgramBuildCallback
    \/ CProgramCompileCallback
    \/ CProgramLinkCallback
    \/ CContextErrorCallback
    \/ CContextDestructorCallback
    \/ HostFnCallback
    \/ HostReturn

Spec == Init /\ [][Next]_vars

\* the life of an event, a memory object and a program: callbacks set on them
\* (accepted or not), release, and the callbacks OpenCL makes on the way
NextLife ==
    \/ Len(regs) < MaxPerObject /\ SetEventCallback
    \/ Len(regs) < MaxPerObject /\ SetMemObjectDestructorCallback
    \/ Len(regs) < MaxPerObject /\ SetProgramReleaseCallback
    \/ Len(clLog) < MaxInv /\ ClInvoke
    \/ Release
    \/ CEventCallback
    \/ CMemObjectDestructorCallback
    \/ CProgramReleaseCallback
    \/ HostReturn

SpecLife == Init /\ [][NextLife]_vars

\* native kernels: enqueued (accepted or not), run by OpenCL, the queue released
NextNative ==
    \/ Len(regs) < MaxPerObject /\ EnqueueNativeKernel
    \/ Len(clLog) < MaxInv /\ ClInvoke
    \/ Release
    \/ CKernelNativeCallback
    \/ HostReturn

SpecNative == Init /\ [][NextNative]_vars

\* contexts: created with or without an error callback, destructor callbacks set
\* on them (accepted or not), errors reported, the context released
NextContext ==
    \/ Len(regs) < MaxRegs /\ CreateContext
    \/ Len(regs) < MaxRegs /\ CreateContextFromType
    \/ Len(regs) < MaxRegs /\ SetContextDestructorCallback
    \/ Len(clLog) < MaxInv /\ ClInvoke
    \/ Release
    \/ CContextErrorCallback
    \/ CContextDestructorCallback
    \/ HostFnCallback
    \/ HostReturn

SpecContext == Init /\ [][NextContext]_vars

----------------------------------------------------------------------------
(* What the claims speak of *)

\* what OpenCL received as callback and user_data in the latest bridge call
Received == ClParse([fn |-> lastCall.fn, args |-> lastCall.args], lastCall.clRet)

\* the trampoline each entry is said to install
ResidentTrampoline(bridge) ==
    CASE bridge = "cl30SetEventCallback" -> "cl30CEventCallback"
      [] bridge = "cl30SetMemObjectDestructorCallback" -> "cl30CMemObjectDestructorCallback"
      [] bridge = "cl30SetProgramReleaseCallback" -> "cl30CProgramReleaseCallback"
      [] bridge = "cl30EnqueueNativeKernel" -> "cl30CKernelNativeCallback"
      [] bridge = "cl30EnqueueSVMFree" -> "cl30CSvmFreeCallback"
      [] bridge = "cl30BuildProgram" -> "cl30CProgramBuildCallback"
      [] bridge = "cl30CompileProgram" -> "cl30CProgramCompileCallback"
      [] bridge = "cl30LinkProgram" -> "cl30CProgramLinkCallback"
      [] bridge = "cl30SetContextDestructorCallback" -> "cl30CContextDestructorCallback"
      [] OTHER -> "cl30CContextErrorCallback"

\* the host entry behind each entry's trampoline
HostEntry(bridge) ==
    CASE bridge = "cl30SetEventCallback" -> "cl30GoEventCallback"
      [] bridge = "cl30SetMemObjectDestructorCallback" -> "cl30GoMemObjectDestructorCallback"
      [] bridge = "cl30SetProgramReleaseCallback" -> "cl30GoProgramReleaseCallback"
      [] bridge = "cl30EnqueueNativeKernel" -> "cl30GoKernelNativeCallback"
      [] bridge = "cl30EnqueueSVMFree" -> "cl30GoSvmFreeCallback"
      [] bridge = "cl30BuildProgram" -> "cl30GoProgramBuildCallback"
      [] bridge = "cl30CompileProgram" -> "cl30GoProgramCompileCallback"
      [] bridge = "cl30LinkProgram" -> "cl30GoProgramLinkCallback"
      [] bridge = "cl30SetContextDestructorCallback" -> "cl30GoContextDestructorCallback"
      [] OTHER -> "cl30GoContextErrorCallback"

NullableBridges ==
    {"cl30BuildProgram", "cl30CompileProgram", "cl30LinkProgram", "cl30EnqueueSVMFree"}
AlwaysBridges ==
    {"cl30SetEventCallback", "cl30SetMemObjectDestructorCallback",
     "cl30SetProgramReleaseCallback"}
CreateContextBridges == {"cl30CreateContext", "cl30CreateContextFromType"}
CreationBridges == CreateContextBridges \cup {"cl30LinkProgram"}

\* the `notify` argument of the latest call (context entries)
NotifyArg ==
    CASE lastCall.bridge = "cl30CreateContext" -> lastCall.in[4]
      [] lastCall.bridge = "cl30CreateContextFromType" -> lastCall.in[3]
      [] OTHER -> lastCall.in[2]

\* the caller's status out-parameter in the latest call (creation entries)
ErrArg == lastCall.in[Len(lastCall.in)]

----------------------------------------------------------------------------
\* C2: build-program, compile-program, link-program and enqueue-svm-free hand
\* OpenCL (NULL, NULL) as callback and user_data when the token is null, and
\* their own trampoline with the token itself when it is not; never a
\* trampoline with null user_data nor a null callback with non-null user_data;
\* and OpenCL holds no callback from a call whose token was null.
C2_RegistrationPolicy ==
    /\ lastCall.bridge \in NullableBridges =>
         /\ lastCall.token = NULL => Received.cb = NULLP /\ Received.ud = NULL
         /\ lastCall.token # NULL =>
                /\ Received.cb = ResidentTrampoline(lastCall.bridge)
                /\ Received.ud = lastCall.token
         /\ (Received.cb = NULLP) <=> (Received.ud = NULL)
    /\ \A i \in Regs : regs[i].via \in NullableBridges => regs[i].token # NULL

C2_Witness ==
    /\ lastCall.bridge = "cl30EnqueueSVMFree"
    /\ lastCall.token = NULL
    /\ lastCall.clErr = CL_SUCCESS
    /\ regs = <<>>

\* C3 as claimed: a null token makes create-context and create-context-from-type
\* hand OpenCL a null callback and null user data.
C3_NullTokenNullCallback ==
    (lastCall.bridge \in CreateContextBridges /\ lastCall.token = 0) =>
        Received.cb = NULLP /\ Received.ud = NULL

\* C3, amended: with a null token OpenCL receives null user data and, as the
\* callback, the caller's notify pointer as it is; the callback is null, and the
\* context without an error callback, exactly when notify is null.
C3_NullTokenPassesNotify ==
    /\ (lastCall.bridge \in CreateContextBridges /\ lastCall.token = 0) =>
         /\ Received.ud = NULL
         /\ Received.cb = NotifyArg
    /\ \A i \in Regs :
         (regs[i].via \in CreateContextBridges /\ regs[i].token = 0) =>
             regs[i].cb # NULLP /\ regs[i].ud = NULL

C3_Witness ==
    /\ lastCall.bridge = "cl30CreateContext"
    /\ lastCall.token = 0
    /\ NotifyArg = "cl30CContextErrorCallback"
    /\ Len(regs) = 1
    /\ regs[1].cb = "cl30CContextErrorCallback"

\* C5 as claimed: set-event-callback, set-mem-destructor and set-program-release
\* pass a null callback when the token is null, the trampoline only otherwise.
C5_NullTokenSuppresses ==
    lastCall.bridge \in AlwaysBridges =>
        /\ lastCall.token = NULL => Received.cb = NULLP
        /\ Received.cb # NULLP => lastCall.token # NULL

\* C5, amended: these three entries pass their trampoline to OpenCL whatever the
\* token is, with the token itself as user_data; a null token does not suppress
\* the registration.
C5_AlwaysRegisters ==
    lastCall.bridge \in AlwaysBridges =>
        /\ Received.cb = ResidentTrampoline(lastCall.bridge)
        /\ Received.ud = lastCall.token
        /\ lastCall.clErr = CL_SUCCESS =>
              /\ regs # <<>>
              /\ regs[Len(regs)].cb = ResidentTrampoline(lastCall.bridge)
              /\ regs[Len(regs)].ud = lastCall.token

C5_Witness ==
    /\ lastCall.bridge = "cl30SetMemObjectDestructorCallback"
    /\ lastCall.token = NULL
    /\ Len(regs) = 1
    /\ regs[1].cb = "cl30CMemObjectDestructorCallback"
    /\ regs[1].ud = NULL

\* C6: every bridge entry returns the value its wrapped call returned, whatever
\* that is; the entries that return a status return OpenCL's status, and the
\* creation entries have OpenCL write its status through the caller's own
\* out-parameter.
C6_ResultPropagation ==
    lastCall.bridge # "none" =>
        /\ lastCall.ret = lastCall.clRet
        /\ IF lastCall.bridge \in CreationBridges
           THEN lastCall.errPtr = ErrArg
           ELSE lastCall.ret = lastCall.clErr

C6_Witness ==
    /\ lastCall.bridge = "cl30LinkProgram"
    /\ lastCall.clErr = CL_OUT_OF_RESOURCES
    /\ lastCall.ret = NULLP
    /\ lastCall.errPtr = ErrOut

----------------------------------------------------------------------------
(* Claims about the callbacks *)

TokenBridges ==
    NullableBridges \cup AlwaysBridges

Last(t) == t[Len(t)]

\* the host calls made in invocation k; those made for registration i
HostCallsOf(k) == { j \in 1..Len(hostLog) : hostLog[j].inv = k }
HostCallsFor(i) == { j \in 1..Len(hostLog) : clLog[hostLog[j].inv].reg = i }
InvsOf(i) == { k \in Invs : clLog[k].reg = i }

\* C1: a callback registered with a non-null token T through set-event-callback,
\* set-mem-destructor, build-, compile-, link-program, set-program-release or
\* enqueue-svm-free reaches the host entry of its family with T as the user-data
\* argument, every time OpenCL calls it and whatever else OpenCL passes.
C1_TokenRoundTrip ==
    \A k \in Invs :
      LET g == regs[clLog[k].reg] IN
      (g.via \in TokenBridges /\ g.token # NULL) =>
          /\ Last(clLog[k].args) = g.token
          /\ clLog[k].pc # "called" => HostCallsOf(k) # {}
          /\ \A j \in HostCallsOf(k) :
                /\ hostLog[j].entry = HostEntry(g.via)
                /\ Last(hostLog[j].args) = g.token

C1_Witness ==
    \E j \in 1..Len(hostLog) :
        /\ hostLog[j].entry = "cl30GoEventCallback"
        /\ hostLog[j].args = <<Event1, CL_OUT_OF_RESOURCES, PtrMax>>
        /\ regs[clLog[hostLog[j].inv].reg].token = PtrMax

\* C4 as claimed: set-context-destructor with a non-null token always hands
\* OpenCL the resident context-destructor trampoline, with the token.
C4_AlwaysResidentTrampoline ==
    (lastCall.bridge = "cl30SetContextDestructorCallback" /\ lastCall.token # NULL) =>
        /\ Received.cb = "cl30CContextDestructorCallback"
        /\ Received.ud = lastCall.token

\* C4, amended: set-context-destructor with a non-null token T hands OpenCL the
\* caller's notify pointer as the callback, with T as user_data; when notify is
\* the resident context-destructor trampoline, OpenCL firing it for context C
\* makes one call of the host context-destructor entry, with (C, T).
C4_NotifyDecides ==
    /\ (lastCall.bridge = "cl30SetContextDestructorCallback" /\ lastCall.token # NULL) =>
         /\ Received.cb = NotifyArg
         /\ Received.ud = lastCall.token
    /\ \A k \in Invs :
         LET g == regs[clLog[k].reg] IN
         (/\ g.via = "cl30SetContextDestructorCallback"
          /\ g.token # NULL
          /\ g.cb = "cl30CContextDestructorCallback"
          /\ clLog[k].pc # "called") =>
             /\ Cardinality(HostCallsOf(k)) = 1
             /\ \A j \in HostCallsOf(k) :
                   /\ hostLog[j].entry = "cl30GoContextDestructorCallback"
                   /\ hostLog[j].args = <<g.obj, g.token>>

C4_Witness ==
    \E j \in 1..Len(hostLog) :
        /\ hostLog[j].entry = "cl30GoContextDestructorCallback"
        /\ hostLog[j].args = <<Context1, PtrMax>>
        /\ regs[clLog[hostLog[j].inv].reg].via = "cl30SetContextDestructorCallback"

\* the host received what OpenCL passed: the same arguments, the user data as
\* the same bit pattern
SameArgs(h, c) ==
    /\ Len(h.args) = Len(c.args)
    /\ \A n \in 1..(Len(c.args) - 1) : h.args[n] = c.args[n]
    /\ IF h.entry = "cl30GoContextErrorCallback"
       THEN IntptrToPtr(Last(h.args)) = Last(c.args)
       ELSE Last(h.args) = Last(c.args)

\* C7: host invocations and OpenCL's callback invocations correspond one to
\* one, however the invocations interleave: an invocation that has entered its
\* callback has made exactly one host call, one that has not has made none,
\* every host call belongs to one invocation and carries its arguments, and per
\* registration the counts agree once no invocation is on its way in.
C7_OneToOne ==
    /\ \A k \in Invs :
         Cardinality(HostCallsOf(k)) = IF clLog[k].pc = "called" THEN 0 ELSE 1
    /\ \A j \in 1..Len(hostLog) :
         /\ hostLog[j].inv \in Invs
         /\ SameArgs(hostLog[j], clLog[hostLog[j].inv])
    /\ \A i \in Regs :
         Cardinality(HostCallsFor(i))
           + Cardinality({ k \in InvsOf(i) : clLog[k].pc = "called" })
           = Cardinality(InvsOf(i))

\* two error callbacks of one context inside the host entry at the same time
C7_Witness ==
    \E k1, k2 \in Invs :
        /\ k1 # k2
        /\ clLog[k1].reg = clLog[k2].reg
        /\ clLog[k1].cb = "cl30CContextErrorCallback"
        /\ clLog[k1].pc = "host"
        /\ clLog[k2].pc = "host"
        /\ Len(hostLog) = 2

\* C8: once an object is drained (released, and every callback invocation made
\* for it has returned) it stays drained and the host receives no further
\* invocation for a callback registered on it.
C8_NoCallAfterDrained ==
    [][ \A i \in Regs :
          Drained(regs[i].obj) =>
              /\ (regs[i].obj \in released)'
              /\ (~Outstanding(regs[i].obj))'
              /\ (Pending(regs[i].obj) = {})'
              /\ HostCallsFor(i)' = HostCallsFor(i) ]_vars

\* an object drained after its callback ran, and a later call on it refused
C8_Witness ==
    \E i \in Regs :
        /\ Drained(regs[i].obj)
        /\ HostCallsFor(i) # {}
        /\ lastCall.bridge # "none"
        /\ lastCall.in[1] = regs[i].obj
        /\ lastCall.clErr = CL_INVALID_VALUE

MemRegs == SelectSeq(regs, LAMBDA g : g.via = "cl30SetMemObjectDestructorCallback")
MemHost == SelectSeq(hostLog, LAMBDA h : h.entry = "cl30GoMemObjectDestructorCallback")

\* C9: the destructor callbacks registered on one memory object with tokens
\* T1..Tn reach the host, once the object is released, as (mem, Tn), ...,
\* (mem, T1): none before the release, in reverse registration order after
\* it, and all n of them, each once, when the object is drained.
C9_ReverseOrder ==
    /\ Mem1 \notin released => MemHost = <<>>
    /\ Len(MemHost) <= Len(MemRegs)
    /\ \A n \in 1..Len(MemHost) :
          MemHost[n].args = <<Mem1, MemRegs[Len(MemRegs) + 1 - n].token>>
    /\ Drained(Mem1) => Len(MemHost) = Len(MemRegs)

C9_Witness ==
    /\ Drained(Mem1)
    /\ Len(MemRegs) = 2
    /\ MemRegs[1].token = 1
    /\ MemRegs[2].token = PtrMax
    /\ Len(MemHost) = 2
    /\ MemHost[1].args = <<Mem1, PtrMax>>

\* C10: enqueue-native-kernel always hands OpenCL the native-kernel trampoline
\* as the kernel function, also for a null or empty argument block, and every
\* other argument as it came; each time OpenCL runs the trampoline the host
\* native-kernel entry is called once, with the block pointer OpenCL passed and
\* nothing else.
C10_NativeKernel ==
    /\ lastCall.bridge = "cl30EnqueueNativeKernel" =>
         lastCall.args = <<lastCall.in[1], "cl30CKernelNativeCallback",
                           lastCall.in[2], lastCall.in[3], lastCall.in[4],
                           lastCall.in[5], lastCall.in[6], lastCall.in[7],
                           lastCall.in[8], lastCall.in[9]>>
    /\ \A k \in Invs :
         clLog[k].cb = "cl30CKernelNativeCallback" =>
             /\ Cardinality(HostCallsOf(k)) = IF clLog[k].pc = "called" THEN 0 ELSE 1
             /\ \A j \in HostCallsOf(k) :
                   /\ hostLog[j].entry = "cl30GoKernelNativeCallback"
                   /\ hostLog[j].args = <<clLog[k].args[1]>>

C10_Witness ==
    /\ lastCall.bridge = "cl30EnqueueNativeKernel"
    /\ lastCall.in[2] = NULL
    /\ lastCall.in[3] = 0
    /\ lastCall.clErr = CL_SUCCESS
    /\ \E j \in 1..Len(hostLog) : hostLog[j].args = <<NULL>>
    /\ \E j \in 1..Len(hostLog) : hostLog[j].args = <<2>>

====
